---- MODULE Spec2Model ----
(***************************************************************************)
(* A model of 01-oop-review.js: user objects of a quiz game that share     *)
(* their behaviour through the prototype chain, the factories that build   *)
(* them (Object.create and constructor/new), .call() with an explicit      *)
(* receiver, and the paid-user subclass.                                    *)
(*                                                                         *)
(* The heap maps an object reference to its [[Prototype]] link and its own *)
(* properties.  A method call o.m() is the language's property lookup      *)
(* (own properties first, then up the prototype chain) followed by a call  *)
(* with this = o.                                                          *)
(***************************************************************************)
EXTENDS Integers, Sequences, FiniteSets, TLC

\* ------------------------------------------------------------------ bounds
\* the number of objects the factories allocate
MaxEntities == 1
\* the number of method calls and of setPrototypeOf calls
MaxCalls == 2

\* ------------------------------------------------------------------ values
\* JavaScript values, in one record shape so that any two can be compared.
Num(n) == [t |-> "number", n |-> n, s |-> ""]
Str(s) == [t |-> "string", n |-> 0, s |-> s]
Fn(f) == [t |-> "function", n |-> 0, s |-> f]
NaN == [t |-> "number", n |-> 0, s |-> "NaN"]
Undefined == [t |-> "undefined", n |-> 0, s |-> ""]
\* the marker of "no own property under this name"
Absent == [t |-> "absent", n |-> 0, s |-> ""]

IsNum(v) == v.t = "number" /\ v.s = ""

\* a step of 2 in place of 1
PlusPlusBy2(v) == IF IsNum(v) THEN Num(v.n + 2) ELSE NaN
\* x++ stores ToNumber(x) + 1; ToNumber of undefined, of NaN and of a
\* non-numeric string such as a user's name is NaN.
PlusPlus(v) == IF IsNum(v) THEN Num(v.n + 1) ELSE NaN

\* 'I am ' + this.name : string concatenation with ToString of the operand
ToStr(v) ==
  CASE v.t = "string" -> v.s
    [] v.t = "undefined" -> "undefined"
    [] v.t = "number" /\ v.s = "NaN" -> "NaN"
    [] v.t = "number" -> ToString(v.n)
    [] OTHER -> "function"

\* ------------------------------------------------------------------ objects
Null == "null"
ObjectPrototype == "Object.prototype"
userFunctions == "userFunctions"
paidUserFunctions == "paidUserFunctions"
userCreator_prototype == "userCreator.prototype"
paidUserCreator_prototype == "paidUserCreator.prototype"
\* UserCreator.prototype of lines 267-276 (increment through an inner function)
UserCreator_prototype_inner == "UserCreator.prototype/function add1"
\* UserCreator.prototype of lines 289-298 (increment through an arrow function)
UserCreator_prototype == "UserCreator.prototype"
obj == "obj"
otherObj == "otherObj"
globalThis == "globalThis"

\* the reference of the i-th object a factory allocates
Ref(i) == "user#" \o ToString(i)

PropNames ==
  {"name", "score", "accountBalance", "num",
   "increment", "sayName", "increaseBalance", "login", "hasOwnProperty",
   "noSuchOp"}

\* an object literal / Object.create(proto) followed by property assignments
Object(proto, own) ==
  [proto |-> proto,
   props |-> [p \in PropNames |-> IF p \in DOMAIN own THEN own[p] ELSE Absent]]

VARIABLES
  heap,      \* reference -> [proto, props]
  allocated, \* how many objects the factories have allocated
  users,     \* reference -> how the factory call that allocated it went
  calls,     \* reference -> how often each counting method was called on it
  nCalls,    \* the number of method calls made so far
  last       \* the last call: its kind, receiver, property, outcome, output

vars == <<heap, allocated, users, calls, nCalls, last>>

\* the arguments the factories are called with: (name, score) and
\* (name, score, accountBalance)
UserArgs == {<<"Phil", 4>>, <<"Julia", 5>>}
PaidUserArgs == {<<"Alyssa", 8, 25>>, <<"Tim", 4, -1>>}
\* the property names a client calls as methods
OpNames == {"increment", "sayName", "increaseBalance", "login", "noSuchOp"}
\* the arguments given to hasOwnProperty (lines 349, 370)
HasOwnArgs == {"num", "score"}

Refs == {Ref(i) : i \in 1..allocated}
\* the objects a factory handed to its caller
Returned == {r \in Refs : users[r].returned}
BehaviorSets ==
  {ObjectPrototype, userFunctions, paidUserFunctions, userCreator_prototype,
   paidUserCreator_prototype, UserCreator_prototype_inner, UserCreator_prototype}

\* ------------------------------------------------------------------ lookup
HasOwn(H, o, p) == H[o].props[p] # Absent

\* The prototype chain of o, o first.  The walk is bounded by the number of
\* objects, so it is defined on a cyclic heap as well.
RECURSIVE ChainFrom(_, _, _)
ChainFrom(H, o, fuel) ==
  IF o = Null \/ fuel = 0 THEN <<>>
  ELSE <<o>> \o ChainFrom(H, H[o].proto, fuel - 1)
Chain(H, o) == ChainFrom(H, o, Cardinality(DOMAIN H))

\* a lookup that prefers the definition highest up the chain
RECURSIVE GetParentFirst(_, _, _)
GetParentFirst(H, o, p) ==
  IF o = Null THEN Undefined
  ELSE LET up == GetParentFirst(H, H[o].proto, p)
       IN IF up # Undefined THEN up
          ELSE IF HasOwn(H, o, p) THEN H[o].props[p] ELSE Undefined
\* o.p : the own property if o has one, else the lookup continues at o's
\* prototype; undefined once the chain ends.
RECURSIVE Get(_, _, _)
Get(H, o, p) ==
  IF o = Null THEN Undefined
  ELSE IF HasOwn(H, o, p) THEN H[o].props[p]
  ELSE Get(H, H[o].proto, p)

\* o.p = v : always an own property of o
Set(H, o, p, v) == [H EXCEPT ![o].props[p] = v]

\* ------------------------------------------------------------------ methods
\* The result of running a function body: the heap after it, what it logged
\* ("" for nothing) and how it ended.
Done(H, log) == [heap |-> H, log |-> log, outcome |-> "ok"]
Threw(H, err) == [heap |-> H, log |-> "", outcome |-> err]

\* this.<field>++
PostIncrement(H, this, field) == Set(H, this, field, PlusPlus(Get(H, this, field)))

\* a method that updates the shared object it is found on
incrementOnProto(H, this) == Done(PostIncrement(H, H[this].proto, "score"), "")
increment(H, this) == Done(PostIncrement(H, this, "score"), "")
\* an increaseBalance that touches the score as well
increaseBalanceAlsoScore(H, this) ==
  Done(PostIncrement(PostIncrement(H, this, "accountBalance"), this, "score"), "")
increaseBalance(H, this) == Done(PostIncrement(H, this, "accountBalance"), "")
\* the slip of lines 24-26: the body names the object instead of this
obj_incrementOwn(H, this) == Done(PostIncrement(H, obj, "num"), "")
obj_increment(H, this) == Done(PostIncrement(H, this, "num"), "")
sayName(H, this) == Done(H, "I am " \o ToStr(Get(H, this, "name")))
login(H, this) == Done(H, "Login")
hasOwnProperty(H, this, arg) == IF HasOwn(H, this, arg) THEN "true" ELSE "false"

\* increment of lines 267-272: add1 is an ordinary function called as add1(),
\* so inside it this is not the receiver of increment: it is undefined in
\* strict code (this.score throws a TypeError) and the global object in
\* sloppy code (globalThis.score++).
increment_add1_function(H, this, strict) ==
  IF strict THEN Threw(H, "TypeError")
  ELSE Done(PostIncrement(H, globalThis, "score"), "")

\* increment of lines 289-294: add1 is an arrow function, whose this is the
\* this of the enclosing increment.
increment_add1_arrow(H, this) == Done(PostIncrement(H, this, "score"), "")

IncrementFns == {"increment", "increment/function add1", "increment/arrow add1"}

\* f.call(this): run the body of function value f with the given receiver
Run(H, f, this, strict) ==
  CASE f.s = "increment" -> increment(H, this)
    [] f.s = "increment/function add1" -> increment_add1_function(H, this, strict)
    [] f.s = "increment/arrow add1" -> increment_add1_arrow(H, this)
    [] f.s = "increaseBalance" -> increaseBalance(H, this)
    [] f.s = "obj.increment" -> obj_increment(H, this)
    [] f.s = "sayName" -> sayName(H, this)
    [] f.s = "login" -> login(H, this)
    [] OTHER -> Done(H, "")

\* ------------------------------------------------------------------ factories
\* lines 377-382: Object.create(userFunctions), then name and score
userCreator(H, r, name, score) ==
  H @@ (r :> Object(userFunctions, [name |-> Str(name), score |-> Num(score)]))

\* lines 439-442 run by new: the fresh object is linked to
\* userCreator.prototype and the body assigns this.name and this.score
new_userCreator(H, r, proto, name, score) ==
  H @@ (r :> Object(proto, [name |-> Str(name), score |-> Num(score)]))

\* what a factory call left behind for the object it allocated
Made(factory, name, score, balance, returned) ==
  [factory |-> factory, name |-> name, score |-> score,
   accountBalance |-> balance, returned |-> returned]

NoCalls == [increment |-> 0, increaseBalance |-> 0, obj_increment |-> 0]

Allocate(r, made) ==
  /\ allocated < MaxEntities
  /\ r = Ref(allocated + 1)
  /\ allocated' = allocated + 1
  /\ users' = users @@ (r :> made)
  /\ calls' = calls @@ (r :> NoCalls)
  /\ UNCHANGED nCalls

\* ret is what the call returned, log what it wrote with console.log
Last(op, this, lender, prop, outcome, ret, log) ==
  [op |-> op, this |-> this, lender |-> lender, prop |-> prop,
   outcome |-> outcome, ret |-> ret, log |-> log]

\* const user1 = userCreator('Phil', 5)                        (lines 377-392)
Call_userCreator ==
  \E a \in UserArgs, r \in {Ref(allocated + 1)} :
    LET name == a[1]
        score == a[2]
    IN
    /\ Allocate(r, Made("userCreator", name, score, 0, TRUE))
    /\ heap' = userCreator(heap, r, name, score)
    /\ last' = Last("userCreator", "", "", "", "ok", r, "")

\* const user1 = new userCreator('Phil', 5)                    (lines 439-451)
New_userCreator ==
  \E a \in UserArgs, r \in {Ref(allocated + 1)} :
    LET name == a[1]
        score == a[2]
    IN
    /\ Allocate(r, Made("new userCreator", name, score, 0, TRUE))
    /\ heap' = new_userCreator(heap, r, userCreator_prototype, name, score)
    /\ last' = Last("new userCreator", "", "", "", "ok", r, "")

\* const user1 = new userCreator('Eva', 9), whose increment goes through the
\* inner function add1 (lines 262-278).  The source writes the constructor
\* userCreator and the prototype UserCreator.prototype; they are read as the
\* one constructor the section is about.
New_UserCreator_inner ==
  \E a \in UserArgs, r \in {Ref(allocated + 1)} :
    LET name == a[1]
        score == a[2]
    IN
    /\ Allocate(r, Made("new UserCreator/function add1", name, score, 0, TRUE))
    /\ heap' = new_userCreator(heap, r, UserCreator_prototype_inner, name, score)
    /\ last' = Last("new UserCreator/function add1", "", "", "", "ok", r, "")

\* const user1 = new UserCreator('Eva', 9)                     (lines 284-300)
New_UserCreator ==
  \E a \in UserArgs, r \in {Ref(allocated + 1)} :
    LET name == a[1]
        score == a[2]
    IN
    /\ Allocate(r, Made("new UserCreator", name, score, 0, TRUE))
    /\ heap' = new_userCreator(heap, r, UserCreator_prototype, name, score)
    /\ last' = Last("new UserCreator", "", "", "", "ok", r, "")

\* const paidUser1 = paidUserCreator('Alyssa', 8, 25)          (lines 395-409)
\* Line 396 builds newPaidUser through userCreator; line 397 then reads the
\* undeclared identifier newUserpaid, which throws a ReferenceError: the
\* object keeps the prototype userCreator gave it, gets no accountBalance and
\* is never returned.
Call_paidUserCreator ==
  \E a \in PaidUserArgs, r \in {Ref(allocated + 1)} :
    LET name == a[1]
        score == a[2]
        balance == a[3]
    IN
    /\ Allocate(r, Made("paidUserCreator", name, score, balance, FALSE))
    /\ heap' = userCreator(heap, r, name, score)
    /\ last' = Last("paidUserCreator", "", "", "", "ReferenceError", "", "")

\* lines 455-459 run by new: the fresh object is linked to
\* paidUserCreator.prototype; userCreator.call(this, paidName, paidScore)
\* runs the base constructor's body on it; then this.accountBalance
new_paidUserCreator(H, r, name, score, balance) ==
  Set(new_userCreator(H, r, paidUserCreator_prototype, name, score),
      r, "accountBalance", Num(balance))

\* const paidUser1 = new paidUserCreator('Alyssa', 8, 25)      (lines 455-467)
New_paidUserCreator ==
  \E a \in PaidUserArgs, r \in {Ref(allocated + 1)} :
    LET name == a[1]
        score == a[2]
        balance == a[3]
    IN
    /\ Allocate(r, Made("new paidUserCreator", name, score, balance, TRUE))
    /\ heap' = new_paidUserCreator(heap, r, name, score, balance)
    /\ last' = Last("new paidUserCreator", "", "", "", "ok", r, "")

\* ------------------------------------------------------------------ calls
\* the objects client code holds and calls methods on
Receivers == Returned \cup {obj, otherObj}
\* the objects handed to .call() as this
CallReceivers == Returned \cup {otherObj}
\* the objects a method is taken from for .call()
Lenders ==
  {userFunctions, paidUserFunctions, userCreator_prototype,
   paidUserCreator_prototype, obj}
Add1Lenders == {UserCreator_prototype_inner, UserCreator_prototype, obj}
\* the property names taken from a lender
CallNames == {"increment"}

\* the model stops after MaxCalls method calls
Budget ==
  /\ nCalls < MaxCalls
  /\ nCalls' = nCalls + 1

\* one more run of f with this receiver
Counted(c, f) ==
  IF f.s \in IncrementFns THEN [c EXCEPT !.increment = @ + 1]
  ELSE IF f.s = "increaseBalance" THEN [c EXCEPT !.increaseBalance = @ + 1]
  ELSE IF f.s = "obj.increment" THEN [c EXCEPT !.obj_increment = @ + 1]
  ELSE c

\* Whether the code of a function is strict is decided by how the file is
\* loaded (as a module, or as a script without "use strict"); it shows only
\* where a function is called without a receiver.
Modes(f) == IF f.s = "increment/function add1" THEN BOOLEAN ELSE {FALSE}

\* a call that lets a value that is no function pass as a no-op
IsCallableAlways(f) == TRUE
\* f(...) throws a TypeError unless f is a function: calling a property that
\* nothing defines is calling undefined
IsCallable(f) == f.t = "function"

\* f.call(this) as one step of the program
Apply(f, this, strict) ==
  LET res == Run(heap, f, this, strict)
  IN /\ heap' = res.heap
     /\ calls' = [calls EXCEPT ![this] = Counted(@, f)]
     /\ UNCHANGED <<allocated, users>>

NotAFunction ==
  UNCHANGED <<heap, calls, allocated, users>>

\* o.p() : the property is looked up on o and its chain; a value that is not
\* a function (undefined when nothing defines p) throws a TypeError, else the
\* function runs with this = o.                  (lines 393, 412, 426, 132)
Invoke ==
  \E o \in Receivers, p \in OpNames :
    LET f == Get(heap, o, p)
    IN \E strict \in Modes(f) :
       /\ Budget
       /\ IF IsCallable(f)
            THEN /\ Apply(f, o, strict)
                 /\ last' = Last("invoke", o, "", p,
                                 Run(heap, f, o, strict).outcome, "",
                                 Run(heap, f, o, strict).log)
            ELSE /\ NotAFunction
                 /\ last' = Last("invoke", o, "", p, "TypeError", "", "")

\* o.hasOwnProperty('num') : found on Object.prototype    (lines 349, 370)
Invoke_hasOwnProperty ==
  \E o \in Receivers, arg \in HasOwnArgs :
    LET f == Get(heap, o, "hasOwnProperty")
    IN /\ Budget
       /\ IsCallable(f)
       /\ UNCHANGED <<heap, calls, allocated, users>>
       /\ last' = Last("invoke", o, "", "hasOwnProperty", "ok",
                       hasOwnProperty(heap, o, arg), "")

\* lender.p.call(r) : the function found on the lender runs with this = r
\*                                                        (lines 427, 456)
InvokeCall(lenders) ==
  \E lender \in lenders, p \in CallNames, r \in CallReceivers :
    LET f == Get(heap, lender, p)
    IN \E strict \in Modes(f) :
       /\ Budget
       /\ IF IsCallable(f)
            THEN /\ Apply(f, r, strict)
                 /\ last' = Last("call", r, lender, p,
                                 Run(heap, f, r, strict).outcome, "",
                                 Run(heap, f, r, strict).log)
            ELSE /\ NotAFunction
                 /\ last' = Last("call", r, lender, p, "TypeError", "", "")

\* ------------------------------------------------------------------ program
\* the paid prototype left as a plain object, line 461 forgotten
PaidParentMissing == ObjectPrototype
\* paidUserCreator.prototype = Object.create(userCreator.prototype) (line 461)
PaidParent == userCreator_prototype

\* the heap once the top-level statements that build the shared objects ran
InitHeap ==
  (ObjectPrototype :>
     Object(Null, [hasOwnProperty |-> Fn("hasOwnProperty")]))
  @@ (userFunctions :>
     Object(ObjectPrototype,
            [sayName |-> Fn("sayName"), increment |-> Fn("increment")]))
  @@ (paidUserFunctions :>
     Object(userFunctions, [increaseBalance |-> Fn("increaseBalance")]))
  @@ (userCreator_prototype :>
     Object(ObjectPrototype,
            [sayName |-> Fn("sayName"), increment |-> Fn("increment")]))
  @@ (paidUserCreator_prototype :>
     Object(PaidParent, [increaseBalance |-> Fn("increaseBalance")]))
  @@ (UserCreator_prototype_inner :>
     Object(ObjectPrototype,
            [increment |-> Fn("increment/function add1"), login |-> Fn("login")]))
  @@ (UserCreator_prototype :>
     Object(ObjectPrototype,
            [increment |-> Fn("increment/arrow add1"), login |-> Fn("login")]))
  @@ (obj :>
     Object(ObjectPrototype, [num |-> Num(3), increment |-> Fn("obj.increment")]))
  @@ (otherObj :> Object(ObjectPrototype, [num |-> Num(10)]))
  @@ (globalThis :> Object(ObjectPrototype, <<>>))

Init ==
  /\ heap = InitHeap
  /\ allocated = 0
  /\ users = <<>>
  /\ calls = [o \in DOMAIN InitHeap |-> NoCalls]
  /\ nCalls = 0
  /\ last = Last("init", "", "", "", "ok", "", "")

\* The sections on subclassing (lines 373-470): base and paid users of both
\* styles, method calls and .call().
Next ==
  \/ Call_userCreator
  \/ New_userCreator
  \/ Call_paidUserCreator
  \/ New_paidUserCreator
  \/ Invoke
  \/ Invoke_hasOwnProperty
  \/ InvokeCall(Lenders)

Spec == Init /\ [][Next]_vars

\* The sections on a method that delegates to a nested helper (lines
\* 256-301): users whose increment goes through add1.
NextAdd1 ==
  \/ New_UserCreator_inner
  \/ New_UserCreator
  \/ Invoke
  \/ InvokeCall(Add1Lenders)

SpecAdd1 == Init /\ [][NextAdd1]_vars

\* ------------------------------------------------------------------ linking
\* The statements that build and query the chains themselves, as the top
\* level of the file runs them: Object.setPrototypeOf(o, proto) (line 408)
\* and the bare property reads user1.increment (lines 131-132, 144).

\* the elements of a sequence
Range(seq) == {seq[i] : i \in 1..Len(seq)}

\* the objects the top-level statements link, and what they link them to
Linkable == {userFunctions, paidUserFunctions, obj, otherObj}
LinkTargets == Linkable \cup {ObjectPrototype, Null}
LookupNames == {"increment", "sayName", "increaseBalance", "noSuchOp"}

\* a link made without looking at proto's chain
setPrototypeOfUnchecked(H, o, proto) ==
  [heap |-> [H EXCEPT ![o].proto = proto], outcome |-> "ok"]
\* Object.setPrototypeOf(o, proto): nothing to do when proto already is o's
\* prototype; a TypeError ("Cyclic __proto__ value") when o is on proto's own
\* chain, which leaves every link as it was; else o's link is replaced.
setPrototypeOf(H, o, proto) ==
  IF H[o].proto = proto THEN [heap |-> H, outcome |-> "ok"]
  ELSE IF o \in Range(Chain(H, proto)) THEN [heap |-> H, outcome |-> "TypeError"]
  ELSE [heap |-> [H EXCEPT ![o].proto = proto], outcome |-> "ok"]

\* Object.setPrototypeOf(paidUserFunctions, userFunctions)        (line 408)
SetPrototypeOf ==
  \E o \in Linkable, proto \in LinkTargets :
    LET res == setPrototypeOf(heap, o, proto)
    IN /\ Budget
       /\ heap' = res.heap
       /\ last' = Last("setPrototypeOf", o, proto, "", res.outcome, "", "")
       /\ UNCHANGED <<allocated, users, calls>>

\* what a property read evaluates to, as text: the function's name, or
\* undefined
Tag(v) == IF v.t = "function" THEN v.s ELSE ToStr(v)

\* user1.increment; : a bare property read             (lines 131-132, 144)
Lookup ==
  \E o \in Linkable, p \in LookupNames :
    /\ last' = Last("get", o, "", p, "ok", Tag(Get(heap, o, p)), "")
    /\ UNCHANGED <<heap, allocated, users, calls, nCalls>>

NextBuild ==
  \/ SetPrototypeOf
  \/ Lookup

SpecBuild == Init /\ [][NextBuild]_vars

\* ------------------------------------------------------------------ claims
BaseUsers ==
  {r \in Returned : users[r].factory \in {"userCreator", "new userCreator"}}
PaidUsers ==
  {r \in Returned : users[r].factory \in {"paidUserCreator", "new paidUserCreator"}}

\* C1: a base user's score is the score it was created with plus the number
\* of increment calls made on it, and its name is the name it was created
\* with.
C1_IncrementAddsOne ==
  \A r \in BaseUsers :
    /\ heap[r].props.score = Num(users[r].score + calls[r].increment)
    /\ heap[r].props.name = Str(users[r].name)

\* userCreator('Phil', 4) followed by one increment: score 5
C1_Witness ==
  \E r \in BaseUsers :
    /\ users[r].name = "Phil" /\ users[r].score = 4
    /\ calls[r].increment = 1
    /\ heap[r].props.score = Num(5)

\* C2: a paid user's accountBalance is the balance it was created with plus
\* the number of increaseBalance calls made on it, and those calls leave its
\* score alone: the score is the initial score plus the increment calls.
C2_IncreaseBalanceAddsOne ==
  \A r \in PaidUsers :
    /\ heap[r].props.accountBalance =
         Num(users[r].accountBalance + calls[r].increaseBalance)
    /\ heap[r].props.score = Num(users[r].score + calls[r].increment)

\* two increaseBalance calls on a paid user, no increment
C2_Witness ==
  \E r \in PaidUsers :
    /\ calls[r].increaseBalance = 2 /\ calls[r].increment = 0
    /\ heap[r].props.accountBalance = Num(users[r].accountBalance + 2)
    /\ heap[r].props.score = Num(users[r].score)

\* C3: increment and sayName called on a paid user succeed; neither the user
\* nor the paid behaviour set defines them, the base behaviour set one level
\* further up does; increment adds 1 to the score and leaves accountBalance,
\* sayName changes nothing and prints the user's name.
C3_BaseMethodsOnPaidUser ==
  [][(/\ nCalls' = nCalls + 1
      /\ last'.op = "invoke"
      /\ last'.this \in PaidUsers
      /\ last'.prop \in {"increment", "sayName"})
     => LET p == last'.this
            m == last'.prop
            paid == heap[p].proto
        IN /\ last'.outcome = "ok"
           /\ ~HasOwn(heap, p, m)
           /\ ~HasOwn(heap, paid, m)
           /\ HasOwn(heap, paid, "increaseBalance")
           /\ HasOwn(heap, heap[paid].proto, m)
           /\ m = "increment" =>
                /\ heap'[p].props.score = Num(heap[p].props.score.n + 1)
                /\ heap'[p].props.accountBalance = heap[p].props.accountBalance
           /\ m = "sayName" =>
                /\ heap' = heap
                /\ last'.log = "I am " \o users[p].name]_vars

\* new paidUserCreator('Alyssa', 8, 25), increaseBalance, increment: 26 and 9
C3_Witness ==
  \E p \in PaidUsers :
    /\ users[p].name = "Alyssa" /\ users[p].score = 8
    /\ users[p].accountBalance = 25
    /\ calls[p].increaseBalance = 1 /\ calls[p].increment = 1
    /\ last.op = "invoke" /\ last.this = p /\ last.prop = "increment"
    /\ last.outcome = "ok"
    /\ heap[p].props.accountBalance = Num(26)
    /\ heap[p].props.score = Num(9)

\* C4: every call of a paid-user factory completes without an error and
\* returns an object with the given name, score and accountBalance, linked
\* to the paid behaviour set (which defines increaseBalance) whose parent is
\* the base behaviour set.
C4_PaidFactoryCompletes ==
  last.op \in {"paidUserCreator", "new paidUserCreator"} =>
    /\ last.outcome = "ok"
    /\ last.ret \in Returned
    /\ heap[last.ret].props.name = Str(users[last.ret].name)
    /\ heap[last.ret].props.score = Num(users[last.ret].score)
    /\ heap[last.ret].props.accountBalance = Num(users[last.ret].accountBalance)
    /\ HasOwn(heap, heap[last.ret].proto, "increaseBalance")
    /\ heap[heap[last.ret].proto].proto \in {userFunctions, userCreator_prototype}

\* C5: a method call whose name no object on the receiver's chain defines
\* ends in the TypeError of calling undefined and changes no object.
C5_MissingOperation ==
  [][(/\ nCalls' = nCalls + 1
      /\ last'.op = "invoke"
      /\ \A o \in Range(Chain(heap, last'.this)) : ~HasOwn(heap, o, last'.prop))
     => /\ last'.outcome = "TypeError"
        /\ heap' = heap]_vars

\* noSuchOp() on a paid user
C5_Witness ==
  /\ last.op = "invoke" /\ last.prop = "noSuchOp"
  /\ last.this \in PaidUsers
  /\ last.outcome = "TypeError"

\* the value of the first definition of p met on the walk from o up its
\* chain, by position on the chain; undefined when no level defines p
Resolved(H, o, p) ==
  LET ch == Chain(H, o)
      at == {i \in 1..Len(ch) : HasOwn(H, ch[i], p)}
  IN IF at = {} THEN Undefined
     ELSE H[ch[CHOOSE i \in at : \A j \in at : i <= j]].props[p]

\* C6: a property read yields the definition stored on the object itself if
\* there is one, else the one of its behaviour set, else the one of that
\* set's parent, and so on: the first level that defines the name wins.  The
\* read changes no object.
C6_ResolutionOrder ==
  [][last'.op = "get"
     => /\ heap' = heap
        /\ last'.ret = Tag(Resolved(heap, last'.this, last'.prop))]_vars

\* an object's own increment read while an object further up its chain
\* defines another increment
C6_Witness ==
  /\ last.op = "get"
  /\ HasOwn(heap, last.this, last.prop)
  /\ last.ret = Tag(heap[last.this].props[last.prop])
  /\ \E a \in Range(Chain(heap, heap[last.this].proto)) :
       /\ HasOwn(heap, a, last.prop)
       /\ heap[a].props[last.prop] # heap[last.this].props[last.prop]

\* no object is on the chain of its own prototype
Acyclic(H) == \A o \in DOMAIN H : o \notin Range(Chain(H, H[o].proto))

\* C7: linking an object to a prototype whose chain leads back to the object
\* fails with a TypeError and leaves every link as it was, so the prototype
\* relation is acyclic in every reachable state.
C7_NoCyclicExtension ==
  /\ []Acyclic(heap)
  /\ [][(/\ nCalls' = nCalls + 1
         /\ last'.op = "setPrototypeOf"
         /\ last'.this \in Range(Chain(heap, last'.lender)))
        => /\ last'.outcome = "TypeError"
           /\ heap' = heap]_vars

\* a refused link that would have closed a cycle through a third object
C7_Witness ==
  /\ last.op = "setPrototypeOf"
  /\ last.outcome = "TypeError"
  /\ last.this # last.lender
  /\ heap[last.lender].proto # last.this
  /\ last.this \in Range(Chain(heap, last.lender))

\* the field a borrowed increment counts in
CounterField(f) == IF f.s = "obj.increment" THEN "num" ELSE "score"

\* C8: lender.increment.call(r) adds exactly 1 to r's counter field (when r
\* holds a number there), whatever r's own chain is, and changes nothing
\* else: not r's prototype link, not r's other fields, and no other object,
\* the lender included.
C8_CallWithReceiver ==
  [][(/\ nCalls' = nCalls + 1
      /\ last'.op = "call"
      /\ last'.prop = "increment")
     => LET r == last'.this
            field == CounterField(Get(heap, last'.lender, "increment"))
            old == Get(heap, r, field)
        IN /\ last'.outcome = "ok"
           /\ IsNum(old) => heap'[r].props[field] = Num(old.n + 1)
           /\ heap'[r].proto = heap[r].proto
           /\ \A q \in PropNames \ {field} : heap'[r].props[q] = heap[r].props[q]
           /\ \A o \in DOMAIN heap \ {r} : heap'[o] = heap[o]]_vars

\* obj.increment.call(otherObj): otherObj.num is 11, obj.num still 3
C8_Witness ==
  /\ last.op = "call" /\ last.lender = obj /\ last.this = otherObj
  /\ last.outcome = "ok"
  /\ heap[otherObj].props.num = Num(11)
  /\ heap[obj].props.num = Num(3)

\* C9: whichever way increment is written, one helper call deep included,
\* every increment call on a user adds exactly 1 to that user's score.
C9_NestedHelperKeepsReceiver ==
  \A r \in Returned :
    heap[r].props.score = Num(users[r].score + calls[r].increment)

\* the behaviour set each factory links its objects to
FactoryProto(factory) ==
  CASE factory = "userCreator" -> userFunctions
    [] factory = "new userCreator" -> userCreator_prototype
    [] factory = "paidUserCreator" -> paidUserFunctions
    [] factory = "new paidUserCreator" -> paidUserCreator_prototype
    [] factory = "new UserCreator/function add1" -> UserCreator_prototype_inner
    [] OTHER -> UserCreator_prototype

====
